---- MODULE Spec2Model ----
(***************************************************************************)
(* A model of the component-shaped utilities of the KRK generator:         *)
(* MemoryCache (a Map with a size cap and a TTL) and VirtualScroller (a    *)
(* windowed list renderer), both from assets/js/utils/performance.js, and  *)
(* WorkerManager (a pool of web workers with per-task callbacks) and the   *)
(* rate limiter of AIIntegrationComponent (components/ai-integration.js).  *)
(***************************************************************************)
EXTENDS Integers, Sequences, FiniteSets, TLC

\* ------------------------------------------------------------------ bounds
MaxTime == 2
MaxGets == 2
MaxItems == 3
MaxScroll == 4
MaxTasks == 2
MaxCalls == 3
MaxTicks == 2

\* the value `null` returned by MemoryCache.get; stored values are 1..2
Null == 0

CacheKeys == {1, 2, 3}
CacheValues == {1, 2}
Caps == {1, 2}
Ttls == {1}

ItemHeights == {2, 80}
ClientHeights == {3, 400}
Counts == (0..MaxItems) \cup {1000}
ScrollTargets == (0..MaxScroll) \cup {8000}
Indexes == {1, 100}

VARIABLES
    cache,          \* MemoryCache.cache: a Map, as the sequence of its entries in insertion order
    maxSize,        \* MemoryCache.maxSize
    ttl,            \* MemoryCache.ttl
    hitCount,       \* MemoryCache.hitCount
    missCount,      \* MemoryCache.missCount
    now,            \* Date.now()
    ret,            \* the last MemoryCache call and what it returned
    lastSet,        \* history: per key still stored, the time and value of its last set
    nHit,           \* history: get calls since construction/clear that returned a stored value
    nMiss,          \* history: get calls since construction/clear that returned null
    run,            \* history: the set calls on distinct keys since the cache was empty
    itemHeight,     \* VirtualScroller.itemHeight
    itemCount,      \* what getItemCount() returns: the length of the backing list
    clientHeight,   \* container.clientHeight
    domScrollTop,   \* container.scrollTop
    scrollTop,      \* VirtualScroller.scrollTop
    containerHeight,\* VirtualScroller.containerHeight
    trackHeight,    \* viewport.style.height, in px
    visibleItems,   \* VirtualScroller.visibleItems: index -> style.top of the row, in px
    inThrottle,     \* the inThrottle flag of the throttled scroll listener
    scrollPending,  \* a scroll event of the container is queued and not yet dispatched
    win,            \* <<visibleStart, visibleEnd>> of the last render
    staleRows,      \* history: the indexes whose row was rendered from a list since replaced
    sop,            \* the last VirtualScroller event
    workers,        \* WorkerManager.workers: worker id -> Worker instance
    callbacks,      \* WorkerManager.callbacks: a Map, worker id -> the ids of its pending tasks
    instances,      \* every Worker constructed so far: its id and whether it is not terminated
    tasks,          \* every execute() call so far: its promise, timer and worker
    initPending,    \* per id, the createWorker calls of initialize() awaiting the import
    restartPending, \* per id, the createWorker calls of restartWorker() awaiting the import
    wop,            \* the last WorkerManager event
    clock,          \* Date.now() as AIIntegrationComponent reads it, in ms
    lastRequestTime,\* AIIntegrationComponent.lastRequestTime
    apiCalls,       \* per callGeminiAPI call: where it stands and when its wait ends
    sent,           \* the times at which fetch() was called, in order
    aiCache,        \* the entries of globalCache, which callGeminiAPI reads and writes
    requestQueue,   \* AIIntegrationComponent.requestQueue: the calls waiting, in order
    isProcessing,   \* AIIntegrationComponent.isProcessing
    loops,          \* the processQueue() invocations under way: their request and where they stand
    queueOrder      \* history: the calls passed to addToQueue, in order

cacheVars == <<cache, maxSize, ttl, hitCount, missCount, now, ret, lastSet, nHit, nMiss, run>>

scrollerVars == <<itemHeight, itemCount, clientHeight, domScrollTop, scrollTop, containerHeight,
                  trackHeight, visibleItems, inThrottle, scrollPending, win, staleRows, sop>>

workerVars == <<workers, callbacks, instances, tasks, initPending, restartPending, wop>>

aiVars == <<clock, lastRequestTime, apiCalls, sent, aiCache,
            requestQueue, isProcessing, loops, queueOrder>>

vars == <<cache, maxSize, ttl, hitCount, missCount, now, ret, lastSet, nHit, nMiss, run,
          itemHeight, itemCount, clientHeight, domScrollTop, scrollTop, containerHeight,
          trackHeight, visibleItems, inThrottle, scrollPending, win, staleRows, sop,
          workers, callbacks, instances, tasks, initPending, restartPending, wop,
          clock, lastRequestTime, apiCalls, sent, aiCache,
          requestQueue, isProcessing, loops, queueOrder>>

\* what a call on one component leaves alone
notCacheVars == <<scrollerVars, workerVars, aiVars>>
notScrollerVars == <<cacheVars, workerVars, aiVars>>
notWorkerVars == <<cacheVars, scrollerVars, aiVars>>
notAiVars == <<cacheVars, scrollerVars, workerVars>>

\* ------------------------------------------------------- the JavaScript Map
MapKeys(c) == {c[i].key : i \in DOMAIN c}

MapHas(c, k) == k \in MapKeys(c)

MapIndex(c, k) == CHOOSE i \in DOMAIN c : c[i].key = k

MapGet(c, k) == c[MapIndex(c, k)]

MapDelete(c, k) == SelectSeq(c, LAMBDA e : e.key # k)

\* Map.prototype.set: an existing key keeps its place in the iteration order
MapSet(c, k, e) ==
    IF MapHas(c, k) THEN [c EXCEPT ![MapIndex(c, k)] = e] ELSE Append(c, e)

\* ------------------------------------------------------------- MemoryCache
Entry(k, v, t) == [key |-> k, value |-> v, timestamp |-> t]

\* set without the capacity check
CacheSetNoEvict(c, key, value, t, cap) == MapSet(c, key, Entry(key, value, t))

\* set evicting the newest entry instead of the oldest
CacheSetEvictNewest(c, key, value, t, cap) ==
    LET c1 == IF Len(c) >= cap /\ Len(c) > 0 THEN MapDelete(c, c[Len(c)].key) ELSE c
    IN  MapSet(c1, key, Entry(key, value, t))

\* set(key, value): the store after the call
CacheSet(c, key, value, t, cap) ==
    LET c1 == IF Len(c) >= cap /\ Len(c) > 0 THEN MapDelete(c, c[1].key) ELSE c
    IN  MapSet(c1, key, Entry(key, value, t))

\* the expiry test off by one: an entry aged exactly ttl counts as expired
ExpiredAtTtl(e, t, life) == t - e.timestamp >= life

\* the expiry test of get, isExpired and cleanup
Expired(e, t, life) == t - e.timestamp > life

\* get(key): "miss" (absent), "expired" or "hit"
CacheGetCase(c, key, t, life) ==
    IF ~MapHas(c, key) THEN "miss"
    ELSE IF Expired(MapGet(c, key), t, life) THEN "expired"
    ELSE "hit"

\* get(key): the value returned
CacheGetResult(c, key, t, life) ==
    IF CacheGetCase(c, key, t, life) = "hit" THEN MapGet(c, key).value ELSE Null

\* get leaving the expired entry in the store
CacheGetStoreKeep(c, key, t, life) == c

\* get(key): the store after the call
CacheGetStore(c, key, t, life) ==
    IF CacheGetCase(c, key, t, life) = "expired" THEN MapDelete(c, key) ELSE c

\* isExpired(key)
IsExpired(c, key, t, life) == MapHas(c, key) /\ Expired(MapGet(c, key), t, life)

\* has(key)
CacheHas(c, key, t, life) == MapHas(c, key) /\ ~IsExpired(c, key, t, life)

\* a sweep that stops at the first expired entry it removes
CacheCleanupFirstOnly(c, t, life) ==
    IF \E i \in DOMAIN c : t - c[i].timestamp > life
    THEN LET i == CHOOSE j \in DOMAIN c :
                    /\ t - c[j].timestamp > life
                    /\ \A h \in 1..(j - 1) : ~(t - c[h].timestamp > life)
         IN  SubSeq(c, 1, i - 1) \o SubSeq(c, i + 1, Len(c))
    ELSE c

\* cleanup(): the store after the sweep
CacheCleanup(c, t, life) == SelectSeq(c, LAMBDA e : ~Expired(e, t, life))

\* the ratio of hits to misses instead of hits to accesses
GetHitRatioOverMisses(h, m) == IF h + m > 0 THEN <<h, m>> ELSE <<0, 1>>

\* getHitRatio(): hits / total as the fraction <<numerator, denominator>>, 0 as <<0, 1>>
GetHitRatio(h, m) == IF h + m > 0 THEN <<h, h + m>> ELSE <<0, 1>>

\* getStats()
GetStats(c, h, m) ==
    [size |-> Len(c), hitCount |-> h, missCount |-> m, hitRatio |-> GetHitRatio(h, m)]

\* ------------------------------------------------------- history variables
NoSet == [t |-> -1, v |-> Null]
NoKey == 0
FreshRun == [ok |-> TRUE, calls |-> <<>>]
BrokenRun == [ok |-> FALSE, calls |-> <<>>]
NoStats == [size |-> 0, hitCount |-> 0, missCount |-> 0, hitRatio |-> <<0, 1>>]

\* the record of a call: what it returned and how many keys it removed from the store (left c2)
Call(o, k, v, c2) ==
    [op |-> o, key |-> k, val |-> v, stats |-> NoStats,
     removed |-> Cardinality(MapKeys(cache) \ MapKeys(c2))]

\* lastSet after a call that left the store c2; setKey # NoKey when the call was set(setKey, setVal)
NextLastSet(c2, setKey, setVal) ==
    [k \in CacheKeys |->
        IF k = setKey THEN [t |-> now, v |-> setVal]
        ELSE IF MapHas(c2, k) THEN lastSet[k] ELSE NoSet]

RunKeys == {run.calls[i].key : i \in DOMAIN run.calls}

\* run after set(k, v)
RunAfterSet(k, v) ==
    IF run.ok /\ k \notin RunKeys /\ Len(run.calls) <= maxSize
    THEN [ok |-> TRUE, calls |-> Append(run.calls, [key |-> k, value |-> v, t |-> now])]
    ELSE BrokenRun

\* run after a call other than set that left the store c2
RunAfterOther(c2) == IF c2 = cache THEN run ELSE BrokenRun

\* ------------------------------------------------------------ the actions
\* new MemoryCache(cap, life)
CacheNew(cap, life) ==
    /\ cache = <<>>
    /\ maxSize = cap
    /\ ttl = life
    /\ hitCount = 0
    /\ missCount = 0
    /\ now = 0
    /\ ret = [op |-> "new", key |-> NoKey, val |-> Null, stats |-> NoStats, removed |-> 0]
    /\ lastSet = [k \in CacheKeys |-> NoSet]
    /\ nHit = 0
    /\ nMiss = 0
    /\ run = FreshRun

Set(k, v) ==
    /\ cache' = CacheSet(cache, k, v, now, maxSize)
    /\ ret' = Call("set", k, Null, cache')
    /\ lastSet' = NextLastSet(cache', k, v)
    /\ run' = RunAfterSet(k, v)
    /\ UNCHANGED <<maxSize, ttl, hitCount, missCount, now, nHit, nMiss>>
    /\ UNCHANGED notCacheVars

Get(k) ==
    /\ hitCount + missCount < MaxGets
    /\ cache' = CacheGetStore(cache, k, now, ttl)
    /\ hitCount' = IF CacheGetCase(cache, k, now, ttl) = "hit" THEN hitCount + 1 ELSE hitCount
    /\ missCount' = IF CacheGetCase(cache, k, now, ttl) = "hit" THEN missCount ELSE missCount + 1
    /\ ret' = Call("get", k, CacheGetResult(cache, k, now, ttl), cache')
    /\ nHit' = IF ret'.val # Null THEN nHit + 1 ELSE nHit
    /\ nMiss' = IF ret'.val = Null THEN nMiss + 1 ELSE nMiss
    /\ lastSet' = NextLastSet(cache', NoKey, Null)
    /\ run' = RunAfterOther(cache')
    /\ UNCHANGED <<maxSize, ttl, now>>
    /\ UNCHANGED notCacheVars

Has(k) ==
    /\ ret' = Call("has", k, IF CacheHas(cache, k, now, ttl) THEN 1 ELSE 0, cache)
    /\ UNCHANGED <<cache, maxSize, ttl, hitCount, missCount, now, lastSet, nHit, nMiss, run>>
    /\ UNCHANGED notCacheVars

Delete(k) ==
    /\ cache' = MapDelete(cache, k)
    /\ ret' = Call("delete", k, IF MapHas(cache, k) THEN 1 ELSE 0, cache')
    /\ lastSet' = NextLastSet(cache', NoKey, Null)
    /\ run' = RunAfterOther(cache')
    /\ UNCHANGED <<maxSize, ttl, hitCount, missCount, now, nHit, nMiss>>
    /\ UNCHANGED notCacheVars

Clear ==
    /\ cache' = <<>>
    /\ hitCount' = 0
    /\ missCount' = 0
    /\ ret' = Call("clear", NoKey, Null, cache')
    /\ lastSet' = [k \in CacheKeys |-> NoSet]
    /\ nHit' = 0
    /\ nMiss' = 0
    /\ run' = FreshRun
    /\ UNCHANGED <<maxSize, ttl, now>>
    /\ UNCHANGED notCacheVars

Cleanup ==
    /\ cache' = CacheCleanup(cache, now, ttl)
    /\ ret' = Call("cleanup", NoKey, Null, cache')
    /\ lastSet' = NextLastSet(cache', NoKey, Null)
    /\ run' = RunAfterOther(cache')
    /\ UNCHANGED <<maxSize, ttl, hitCount, missCount, now, nHit, nMiss>>
    /\ UNCHANGED notCacheVars

Stats ==
    /\ ret' = [Call("getStats", NoKey, Null, cache) EXCEPT !.stats = GetStats(cache, hitCount, missCount)]
    /\ UNCHANGED <<cache, maxSize, ttl, hitCount, missCount, now, lastSet, nHit, nMiss, run>>
    /\ UNCHANGED notCacheVars

\* the clock advances between calls
Tick ==
    /\ now < MaxTime
    /\ now' = now + 1
    /\ UNCHANGED <<cache, maxSize, ttl, hitCount, missCount, ret, lastSet, nHit, nMiss, run>>
    /\ UNCHANGED notCacheVars

CacheNext ==
    \/ \E k \in CacheKeys, v \in CacheValues : Set(k, v)
    \/ \E k \in CacheKeys : Get(k)
    \/ \E k \in CacheKeys : Has(k)
    \/ \E k \in CacheKeys : Delete(k)
    \/ Clear
    \/ Cleanup
    \/ Stats
    \/ Tick

\* ---------------------------------------------------------- VirtualScroller
Min(a, b) == IF a <= b THEN a ELSE b
Max(a, b) == IF a >= b THEN a ELSE b

\* Math.floor(a / b) and Math.ceil(a / b) for a >= 0, b > 0
Floor(a, b) == a \div b
Ceil(a, b) == (a + b - 1) \div b

\* render(): visibleStart
VisibleStart(top, h) == Floor(top, h)

\* visibleEnd without the one-row buffer
VisibleEndNoBuffer(top, h, ch, n) == Min(VisibleStart(top, h) + Ceil(ch, h), n)

\* render(): visibleEnd
VisibleEnd(top, h, ch, n) == Min(VisibleStart(top, h) + Ceil(ch, h) + 1, n)

\* the removal loop testing index > visibleEnd: the row at visibleEnd survives
RenderItemsKeepEnd(items, start, end, h) ==
    LET kept == {i \in DOMAIN items : ~(i < start \/ i > end)}
        added == {i \in start..(end - 1) : i \notin kept}
    IN  [i \in kept \cup added |-> IF i \in kept THEN items[i] ELSE i * h]

\* render without the removal loop
RenderItemsNoRemove(items, start, end, h) ==
    LET kept == DOMAIN items
        added == {i \in start..(end - 1) : i \notin kept}
    IN  [i \in kept \cup added |-> IF i \in kept THEN items[i] ELSE i * h]

\* rows positioned relative to the window instead of the list
RenderItemsRelativeTop(items, start, end, h) ==
    LET kept == {i \in DOMAIN items : ~(i < start \/ i >= end)}
        added == {i \in start..(end - 1) : i \notin kept}
    IN  [i \in kept \cup added |-> IF i \in kept THEN items[i] ELSE (i - start) * h]

\* render(): the rows after the removal loop and the add loop
RenderItems(items, start, end, h) ==
    LET kept == {i \in DOMAIN items : ~(i < start \/ i >= end)}
        added == {i \in start..(end - 1) : i \notin kept}
    IN  [i \in kept \cup added |-> IF i \in kept THEN items[i] ELSE i * h]

\* render(): the rows that survive the removal loop; the add loop skips them
\* (visibleItems.has(i)), so renderItem is not called again for them
KeptRows(items, start, end) == {i \in DOMAIN items : ~(i < start \/ i >= end)}

\* the rows of an older list that are still displayed after render()
StaleAfterRender(stale, items, top, h, ch, n) ==
    stale \cap KeptRows(items, VisibleStart(top, h), VisibleEnd(top, h, ch, n))

\* render() on the rows `items`
Render(items, top, h, ch, n) ==
    RenderItems(items, VisibleStart(top, h), VisibleEnd(top, h, ch, n), h)

\* the browser keeps container.scrollTop within the scrollable range
ClampScroll(top, track, ch) == Min(Max(top, 0), Max(track - ch, 0))

NoItems == [i \in {} |-> 0]

\* the track sized by the count alone
TrackHeightCountOnly(n, h) == n

\* updateContainerHeight(): totalHeight for n items of height h
TrackHeight(n, h) == n * h

\* new VirtualScroller(container, h, renderItem, getItemCount) with getItemCount() = n
\* and container.clientHeight = ch: the constructor, init(), updateContainerHeight(), render()
ScrollerNew(h, ch, n) ==
    /\ itemHeight = h
    /\ itemCount = n
    /\ clientHeight = ch
    /\ domScrollTop = 0
    /\ scrollTop = 0
    /\ containerHeight = ch
    /\ trackHeight = TrackHeight(n, h)
    /\ visibleItems = Render(NoItems, 0, h, ch, n)
    /\ inThrottle = FALSE
    /\ scrollPending = FALSE
    /\ win = <<VisibleStart(0, h), VisibleEnd(0, h, ch, n)>>
    /\ staleRows = {}
    /\ sop = "init"

\* the listener throttle(() => this.handleScroll(), 16) called with container.scrollTop = off:
\* handleScroll() runs unless a call was made less than 16 ms ago
ThrottledHandleScroll(off) ==
    IF ~inThrottle
    THEN /\ scrollTop' = off
         /\ visibleItems' = Render(visibleItems, off, itemHeight, containerHeight, itemCount)
         /\ win' = <<VisibleStart(off, itemHeight),
                     VisibleEnd(off, itemHeight, containerHeight, itemCount)>>
         /\ staleRows' = StaleAfterRender(staleRows, visibleItems, off, itemHeight,
                                          containerHeight, itemCount)
         /\ inThrottle' = TRUE
         /\ sop' = "scroll"
    ELSE /\ sop' = "dropped"
         /\ UNCHANGED <<scrollTop, visibleItems, win, staleRows, inThrottle>>

\* the user scrolls the container to offset `off`: the scroll event reaches the listener
ScrollEvent(off) ==
    /\ off = ClampScroll(off, trackHeight, clientHeight)
    /\ off # domScrollTop
    /\ domScrollTop' = off
    /\ scrollPending' = FALSE
    /\ ThrottledHandleScroll(off)
    /\ UNCHANGED <<itemHeight, itemCount, clientHeight, containerHeight, trackHeight>>
    /\ UNCHANGED notScrollerVars

\* the scroll event queued by a change of container.scrollTop made from script or by
\* the browser's clamping reaches the listener
DispatchScroll ==
    /\ scrollPending
    /\ scrollPending' = FALSE
    /\ ThrottledHandleScroll(domScrollTop)
    /\ UNCHANGED <<itemHeight, itemCount, clientHeight, domScrollTop, containerHeight, trackHeight>>
    /\ UNCHANGED notScrollerVars

\* the 16 ms timer of throttle
ThrottleTimeout ==
    /\ inThrottle
    /\ inThrottle' = FALSE
    /\ sop' = "timeout"
    /\ UNCHANGED <<itemHeight, itemCount, clientHeight, domScrollTop, scrollTop, containerHeight,
                   trackHeight, visibleItems, scrollPending, win, staleRows>>
    /\ UNCHANGED notScrollerVars

\* scrollToIndex(i): sets container.scrollTop, which the browser clamps; a change queues
\* a scroll event
ScrollToIndex(i) ==
    /\ domScrollTop' = ClampScroll(i * itemHeight, trackHeight, clientHeight)
    /\ scrollPending' = (scrollPending \/ domScrollTop' # domScrollTop)
    /\ sop' = "scrollToIndex"
    /\ UNCHANGED <<itemHeight, itemCount, clientHeight, scrollTop, containerHeight,
                   trackHeight, visibleItems, inThrottle, win, staleRows>>
    /\ UNCHANGED notScrollerVars

\* refresh(): updateContainerHeight() then render()
Refresh ==
    /\ containerHeight' = clientHeight
    /\ trackHeight' = TrackHeight(itemCount, itemHeight)
    /\ domScrollTop' = ClampScroll(domScrollTop, trackHeight', clientHeight)
    /\ scrollPending' = (scrollPending \/ domScrollTop' # domScrollTop)
    /\ visibleItems' = Render(visibleItems, scrollTop, itemHeight, containerHeight', itemCount)
    /\ win' = <<VisibleStart(scrollTop, itemHeight),
                VisibleEnd(scrollTop, itemHeight, containerHeight', itemCount)>>
    /\ staleRows' = StaleAfterRender(staleRows, visibleItems, scrollTop, itemHeight,
                                     containerHeight', itemCount)
    /\ sop' = "refresh"
    /\ UNCHANGED <<itemHeight, itemCount, clientHeight, scrollTop, inThrottle>>
    /\ UNCHANGED notScrollerVars

\* the backing list is replaced by one of another length whose item at each index
\* is another one (a filter dropping the first project, a project added in front):
\* every row on display was rendered from the list that is gone
MutateList(n) ==
    /\ n # itemCount
    /\ itemCount' = n
    /\ staleRows' = DOMAIN visibleItems
    /\ sop' = "mutate"
    /\ UNCHANGED <<itemHeight, clientHeight, domScrollTop, scrollTop, containerHeight,
                   trackHeight, visibleItems, inThrottle, scrollPending, win>>
    /\ UNCHANGED notScrollerVars

\* the container is resized; the scroller listens to no resize event
Resize(ch) ==
    /\ ch # clientHeight
    /\ clientHeight' = ch
    /\ domScrollTop' = ClampScroll(domScrollTop, trackHeight, ch)
    /\ scrollPending' = (scrollPending \/ domScrollTop' # domScrollTop)
    /\ sop' = "resize"
    /\ UNCHANGED <<itemHeight, itemCount, scrollTop, containerHeight, trackHeight,
                   visibleItems, inThrottle, win, staleRows>>
    /\ UNCHANGED notScrollerVars

ScrollerNext ==
    \/ \E off \in ScrollTargets : ScrollEvent(off)
    \/ DispatchScroll
    \/ ThrottleTimeout
    \/ \E i \in Indexes : ScrollToIndex(i)
    \/ Refresh
    \/ \E n \in Counts : MutateList(n)
    \/ \E ch \in ClientHeights : Resize(ch)

\* ------------------------------------------------------------ WorkerManager
\* the pool's ids 'worker-0', 'worker-1': workerCount is 2
WorkerIds == {0, 1}

workerCount == Cardinality(WorkerIds)

\* the Worker instances a run may construct: the pool twice over
MaxInstances == 2 * workerCount

\* the null of getAvailableWorker
NoWorker == 0 - 1

\* minTasks = Infinity: above every table size
Infinity == MaxTasks + 1

NoWorkers == [id \in {} |-> 0]

NonePending == [id \in WorkerIds |-> 0]

\* the pending tasks of worker id: the keys of callbacks.get(id)
Table(cbs, id) == MapGet(cbs, id).tasks

TableEntry(id, ts) == [key |-> id, tasks |-> ts]

RECURSIVE LeastBusy(_, _, _, _)
\* the loop of getAvailableWorker: a strictly smaller table replaces the choice
LeastBusy(cbs, i, minTasks, availableWorkerId) ==
    IF i > Len(cbs) THEN availableWorkerId
    ELSE IF Cardinality(cbs[i].tasks) < minTasks
         THEN LeastBusy(cbs, i + 1, Cardinality(cbs[i].tasks), cbs[i].key)
         ELSE LeastBusy(cbs, i + 1, minTasks, availableWorkerId)

\* getAvailableWorker taking the first worker whatever its load
GetAvailableWorkerFirst(cbs) == IF cbs = <<>> THEN NoWorker ELSE cbs[1].key

\* getAvailableWorker(): the id chosen, NoWorker when the pool is empty
GetAvailableWorker(cbs) == LeastBusy(cbs, 1, Infinity, NoWorker)

\* a promise settles on the first resolve/reject call only; calls counts them all
Settle(task, st, why, val) ==
    IF task.st = "pending"
    THEN [task EXCEPT !.st = st, !.why = why, !.val = val, !.calls = @ + 1]
    ELSE [task EXCEPT !.calls = @ + 1]

\* clearTimeout(task.timeout)
ClearTimeout(task) ==
    IF task.timer = "armed" THEN [task EXCEPT !.timer = "cleared"] ELSE task

\* the promise, callbacks and timer set up by execute() on worker id, instance k
NewTask(id, k) ==
    [st |-> "pending", why |-> "none", val |-> Null, wid |-> id, inst |-> k,
     timer |-> "armed", calls |-> 0]

\* execute() with no worker: the async function throws before any promise is made
FailedTask ==
    [st |-> "rejected", why |-> "No available workers", val |-> Null, wid |-> NoWorker,
     inst |-> 0, timer |-> "none", calls |-> 1]

\* the message a worker posts for task t: a result or an error, tagged with t
Message(t, kind) ==
    [id |-> t, result |-> IF kind = "result" THEN t ELSE Null,
     error |-> IF kind = "error" THEN t ELSE Null]

\* handleWorkerMessage resolving the worker's oldest pending task, whatever the id
TaskForMessageOldest(cbs, workerId, id) ==
    IF MapHas(cbs, workerId) /\ Table(cbs, workerId) # {}
    THEN CHOOSE t \in Table(cbs, workerId) : \A u \in Table(cbs, workerId) : t <= u
    ELSE Null

\* handleWorkerMessage: the task the message settles, Null when it is ignored
TaskForMessage(cbs, workerId, id) ==
    IF MapHas(cbs, workerId) /\ id \in Table(cbs, workerId) THEN id ELSE Null

\* handleWorkerMessage(workerId, {id, result, error}): the tasks afterwards
TasksAfterMessage(ts, cbs, workerId, msg) ==
    LET t == TaskForMessage(cbs, workerId, msg.id)
    IN  IF t = Null THEN ts
        ELSE [ts EXCEPT ![t] =
                 IF msg.error # Null
                 THEN Settle(ClearTimeout(@), "rejected", "error", msg.error)
                 ELSE Settle(ClearTimeout(@), "resolved", "result", msg.result)]

\* handleWorkerMessage: callbacks.delete(id) on the worker's table
CallbacksAfterMessage(cbs, workerId, msg) ==
    IF TaskForMessage(cbs, workerId, msg.id) = Null THEN cbs
    ELSE MapSet(cbs, workerId, TableEntry(workerId, Table(cbs, workerId) \ {msg.id}))

\* handleWorkerError rejecting without clearing the timeouts
TasksAfterErrorKeepTimers(ts, cbs, workerId) ==
    IF ~MapHas(cbs, workerId) THEN ts
    ELSE [t \in DOMAIN ts |->
             IF t \in Table(cbs, workerId)
             THEN Settle(ts[t], "rejected", "Worker error", Null)
             ELSE ts[t]]

\* handleWorkerError(workerId): every task of the table rejected, its timeout cleared
TasksAfterError(ts, cbs, workerId) ==
    IF ~MapHas(cbs, workerId) THEN ts
    ELSE [t \in DOMAIN ts |->
             IF t \in Table(cbs, workerId)
             THEN Settle(ClearTimeout(ts[t]), "rejected", "Worker error", Null)
             ELSE ts[t]]

\* handleWorkerError clears the table; restartWorker deletes it with the worker
CallbacksAfterError(cbs, ws, workerId) ==
    LET cleared == IF MapHas(cbs, workerId)
                   THEN MapSet(cbs, workerId, TableEntry(workerId, {}))
                   ELSE cbs
    IN  IF workerId \in DOMAIN ws THEN MapDelete(cleared, workerId) ELSE cleared

\* worker.terminate() on the instance registered under id, if any
Terminate(is, ws, id) ==
    IF id \in DOMAIN ws THEN [is EXCEPT ![ws[id]].live = FALSE] ELSE is

\* this.workers.delete(id)
WorkersDelete(ws, id) == [w \in DOMAIN ws \ {id} |-> ws[w]]

\* this.workers.set(id, worker)
WorkersSet(ws, id, k) == [w \in DOMAIN ws \cup {id} |-> IF w = id THEN k ELSE ws[w]]

\* the next id from i on that initialize() has to create: createWorker returns at
\* once for an id the map already has
NextMissing(ws, i) ==
    IF \E j \in WorkerIds : j >= i /\ j \notin DOMAIN ws
    THEN CHOOSE j \in WorkerIds :
             /\ j >= i /\ j \notin DOMAIN ws
             /\ \A m \in WorkerIds : (m >= i /\ m \notin DOMAIN ws) => j <= m
    ELSE workerCount

AddPending(p, id) == IF id \in WorkerIds THEN [p EXCEPT ![id] = @ + 1] ELSE p

RECURSIVE Sum(_, _)
Sum(f, S) == IF S = {} THEN 0 ELSE LET x == CHOOSE y \in S : TRUE IN f[x] + Sum(f, S \ {x})

\* the Worker instances made so far plus those the running calls will still make
Committed ==
    Len(instances) + Sum(restartPending, WorkerIds)
        + Sum([id \in WorkerIds |-> initPending[id] * (workerCount - id)], WorkerIds)

\* new WorkerManager() followed by the module's workerManager.initialize(), which
\* runs up to the import awaited by createWorker('worker-0')
WorkerNew ==
    /\ workers = NoWorkers
    /\ callbacks = <<>>
    /\ instances = <<>>
    /\ tasks = <<>>
    /\ initPending = AddPending(NonePending, NextMissing(NoWorkers, 0))
    /\ restartPending = NonePending
    /\ wop = "new"

\* createWorker(id) after the import: new Worker, workers.set, callbacks.set
Register(id) ==
    /\ instances' = Append(instances, [id |-> id, live |-> TRUE])
    /\ workers' = WorkersSet(workers, id, Len(instances) + 1)
    /\ callbacks' = MapSet(callbacks, id, TableEntry(id, {}))

\* initialize(): the loop runs to the first id it has to create
Initialize ==
    /\ Committed + (workerCount - NextMissing(workers, 0)) <= MaxInstances
    /\ initPending' = AddPending(initPending, NextMissing(workers, 0))
    /\ wop' = "initialize"
    /\ UNCHANGED <<workers, callbacks, instances, tasks, restartPending>>
    /\ UNCHANGED notWorkerVars

\* a createWorker(id) of initialize() resumes after its import, registers the new
\* worker, and the loop runs on to the next id it has to create
InitImport(id) ==
    /\ initPending[id] > 0
    /\ Register(id)
    /\ initPending' = AddPending([initPending EXCEPT ![id] = @ - 1],
                                 NextMissing(workers', id + 1))
    /\ wop' = "created"
    /\ UNCHANGED <<tasks, restartPending>>
    /\ UNCHANGED notWorkerVars

\* the createWorker(id) of restartWorker() resumes after its import
RestartImport(id) ==
    /\ restartPending[id] > 0
    /\ Register(id)
    /\ restartPending' = [restartPending EXCEPT ![id] = @ - 1]
    /\ wop' = "restarted"
    /\ UNCHANGED <<tasks, initPending>>
    /\ UNCHANGED notWorkerVars

\* execute(taskType, payload)
Execute ==
    /\ Len(tasks) < MaxTasks
    /\ LET id == GetAvailableWorker(callbacks)
           taskId == Len(tasks) + 1
       IN  /\ IF id = NoWorker
              THEN /\ tasks' = Append(tasks, FailedTask)
                   /\ UNCHANGED callbacks
              ELSE /\ tasks' = Append(tasks, NewTask(id, workers[id]))
                   /\ callbacks' = MapSet(callbacks, id,
                                      TableEntry(id, Table(callbacks, id) \cup {taskId}))
           /\ wop' = "execute"
    /\ UNCHANGED <<workers, instances, initPending, restartPending>>
    /\ UNCHANGED notWorkerVars

\* the worker that was posted task t posts a message tagged t; worker.onmessage
\* runs handleWorkerMessage with the id the worker was created under
WorkerReply(t, kind) ==
    /\ t \in DOMAIN tasks
    /\ tasks[t].inst # 0
    /\ instances[tasks[t].inst].live
    /\ LET workerId == instances[tasks[t].inst].id
           msg == Message(t, kind)
       IN  /\ tasks' = TasksAfterMessage(tasks, callbacks, workerId, msg)
           /\ callbacks' = CallbacksAfterMessage(callbacks, workerId, msg)
           /\ wop' = "message"
    /\ UNCHANGED <<workers, instances, initPending, restartPending>>
    /\ UNCHANGED notWorkerVars

\* the 30 s timer of task t fires: callbacks.get(workerId).delete(taskId), then
\* reject; with no table under workerId the first statement throws
TaskTimeout(t) ==
    /\ t \in DOMAIN tasks
    /\ tasks[t].timer = "armed"
    /\ IF MapHas(callbacks, tasks[t].wid)
       THEN /\ callbacks' = MapSet(callbacks, tasks[t].wid,
                               TableEntry(tasks[t].wid, Table(callbacks, tasks[t].wid) \ {t}))
            /\ tasks' = [tasks EXCEPT ![t] =
                            Settle([@ EXCEPT !.timer = "fired"], "rejected",
                                   "Worker task timed out", Null)]
            /\ wop' = "timeout"
       ELSE /\ tasks' = [tasks EXCEPT ![t].timer = "threw"]
            /\ wop' = "timeout"
            /\ UNCHANGED callbacks
    /\ UNCHANGED <<workers, instances, initPending, restartPending>>
    /\ UNCHANGED notWorkerVars

\* instance k raises an error: worker.onerror runs handleWorkerError with the id
\* the worker was created under, which rejects the table's tasks, clears it and
\* calls restartWorker up to the import awaited by createWorker
WorkerError(k) ==
    /\ k \in DOMAIN instances
    /\ instances[k].live
    /\ Committed < MaxInstances
    /\ LET workerId == instances[k].id
       IN  /\ tasks' = TasksAfterError(tasks, callbacks, workerId)
           /\ instances' = Terminate(instances, workers, workerId)
           /\ workers' = WorkersDelete(workers, workerId)
           /\ callbacks' = CallbacksAfterError(callbacks, workers, workerId)
           /\ restartPending' = [restartPending EXCEPT ![workerId] = @ + 1]
           /\ wop' = "error"
    /\ UNCHANGED initPending
    /\ UNCHANGED notWorkerVars

\* terminateAll stopping after the first worker of the map
InstancesAfterTerminateAllFirst(is, ws) ==
    IF ws = NoWorkers THEN is
    ELSE [is EXCEPT ![ws[CHOOSE w \in DOMAIN ws : \A u \in DOMAIN ws : w <= u]].live = FALSE]

\* terminateAll(): terminate() on every worker of the map
InstancesAfterTerminateAll(is, ws) ==
    [k \in DOMAIN is |->
        IF \E w \in DOMAIN ws : ws[w] = k THEN [is[k] EXCEPT !.live = FALSE] ELSE is[k]]

\* terminateAll(): both maps lose every id of the workers map
TerminateAll ==
    /\ instances' = InstancesAfterTerminateAll(instances, workers)
    /\ workers' = NoWorkers
    /\ callbacks' = SelectSeq(callbacks, LAMBDA e : e.key \notin DOMAIN workers)
    /\ wop' = "terminateAll"
    /\ UNCHANGED <<tasks, initPending, restartPending>>
    /\ UNCHANGED notWorkerVars

WorkerNext ==
    \/ Initialize
    \/ \E id \in WorkerIds : InitImport(id)
    \/ \E id \in WorkerIds : RestartImport(id)
    \/ Execute
    \/ \E t \in 1..MaxTasks, kind \in {"result", "error"} : WorkerReply(t, kind)
    \/ \E t \in 1..MaxTasks : TaskTimeout(t)
    \/ \E k \in 1..MaxInstances : WorkerError(k)
    \/ TerminateAll

\* ---------------------------------------------------- AIIntegrationComponent
\* this.rateLimitDelay, in ms
rateLimitDelay == 1000

\* the step of the clock, in ms
TickMs == rateLimitDelay \div 2

\* Date.now() when the component is constructed: at least rateLimitDelay past 0
StartTime == rateLimitDelay

EndTime == StartTime + MaxTicks * TickMs

CallIds == 1..MaxCalls

\* strings are sequences of character codes; substring(a, b) of s
Substring(s, a, b) == SubSeq(s, a + 1, Min(b, Len(s)))

\* the base64 padding character, beside the 64 digits 0..63
Pad == 64

RECURSIVE Btoa(_)
\* btoa(s): every 3 bytes give 4 base64 digits, a last group of 1 or 2 bytes is padded
Btoa(s) ==
    IF s = <<>> THEN <<>>
    ELSE IF Len(s) = 1
         THEN <<s[1] \div 4, (s[1] % 4) * 16, Pad, Pad>>
    ELSE IF Len(s) = 2
         THEN <<s[1] \div 4, (s[1] % 4) * 16 + s[2] \div 16, (s[2] % 16) * 4, Pad>>
    ELSE <<s[1] \div 4, (s[1] % 4) * 16 + s[2] \div 16,
           (s[2] % 16) * 4 + s[3] \div 64, s[3] % 64>> \o Btoa(SubSeq(s, 4, Len(s)))

\* generateCacheKey: the base64 digits kept, and the characters of image data used
KeyChars == 32
ImageChars == 100

\* the bytes that KeyChars base64 digits encode
KeyBytes == (KeyChars \div 4) * 3

\* 'ai_'
KeyPrefix == <<97, 105, 95>>

\* imageData = null
NoImage == 0

\* the prompts of the calls: two that share their first KeyBytes characters and
\* differ in the next one, and a short one
PromptText(p) ==
    IF p = 1 THEN [i \in 1..KeyBytes |-> 97] \o <<120>>
    ELSE IF p = 2 THEN [i \in 1..KeyBytes |-> 97] \o <<121>>
    ELSE <<98>>

\* imageData.data of the images of the calls
ImageData(m) == <<105, 109, 103, 48 + m>>

\* the requests made: the two long prompts and the short prompt with an image
Requests == {<<1, NoImage>>, <<2, NoImage>>, <<3, 1>>}

\* generateCacheKey(prompt, imageData)
GenerateCacheKey(prompt, image) ==
    LET content == IF image # NoImage
                   THEN PromptText(prompt) \o Substring(ImageData(image), 0, ImageChars)
                   ELSE PromptText(prompt)
    IN  KeyPrefix \o Substring(Btoa(content), 0, KeyChars)

\* the default maxSize and ttl of globalCache = new MemoryCache()
GlobalCacheMaxSize == 100
GlobalCacheTtl == 30 * 60 * 1000

\* the answer of the API to a request: one per prompt and image
Answer(prompt, image) == 2 * prompt + image

NotCalled == [pc |-> "idle", wake |-> 0, prompt |-> 0, image |-> NoImage, got |-> Null]

\* enforceRateLimit: the time still to wait at time t, 0 when none
WaitTime(t, last) ==
    IF t - last < rateLimitDelay THEN rateLimitDelay - (t - last) ELSE 0

\* new AIIntegrationComponent(), with an empty globalCache
AiNew ==
    /\ clock = StartTime
    /\ lastRequestTime = 0
    /\ apiCalls = [c \in CallIds |-> NotCalled]
    /\ sent = <<>>
    /\ aiCache = <<>>
    /\ requestQueue = <<>>
    /\ isProcessing = FALSE
    /\ loops = {}
    /\ queueOrder = <<>>

\* enforceRateLimit after its wait, or without one: lastRequestTime = Date.now(),
\* then callGeminiAPI builds the request and calls fetch
SendRequest(c) ==
    /\ lastRequestTime' = clock
    /\ sent' = Append(sent, clock)
    /\ apiCalls' = [apiCalls EXCEPT ![c].pc = "fetch", ![c].wake = 0]

\* callGeminiAPI(prompt, imageData) up to its first suspension, recorded in the
\* calls `base`: a cached answer is returned at once, otherwise enforceRateLimit
\* either waits or goes on to fetch
StartCall(base, c, prompt, image) ==
    LET key == GenerateCacheKey(prompt, image)
        cached == CacheGetResult(aiCache, key, clock, GlobalCacheTtl)
        call == [NotCalled EXCEPT !.prompt = prompt, !.image = image]
    IN  /\ aiCache' = CacheGetStore(aiCache, key, clock, GlobalCacheTtl)
        /\ IF cached # Null
           THEN /\ apiCalls' = [base EXCEPT ![c] =
                                   [call EXCEPT !.pc = "cached", !.got = cached]]
                /\ UNCHANGED <<lastRequestTime, sent>>
           ELSE IF WaitTime(clock, lastRequestTime) > 0
                THEN /\ apiCalls' = [base EXCEPT ![c] =
                                        [call EXCEPT !.pc = "wait",
                                            !.wake = clock + WaitTime(clock, lastRequestTime)]]
                     /\ UNCHANGED <<lastRequestTime, sent>>
                ELSE /\ lastRequestTime' = clock
                     /\ sent' = Append(sent, clock)
                     /\ apiCalls' = [base EXCEPT ![c] = [call EXCEPT !.pc = "fetch"]]

\* calls are numbered in the order in which they are made
IsNextCall(c) == apiCalls[c].pc = "idle" /\ \A b \in 1..(c - 1) : apiCalls[b].pc # "idle"

\* a caller calls callGeminiAPI(prompt, imageData)
CallGeminiAPI(c, prompt, image) ==
    /\ IsNextCall(c)
    /\ StartCall(apiCalls, c, prompt, image)
    /\ UNCHANGED <<clock, requestQueue, isProcessing, loops, queueOrder>>
    /\ UNCHANGED notAiVars

\* the setTimeout(resolve, waitTime) of a waiting call fires, not before its time
WaitOver(c) ==
    /\ apiCalls[c].pc = "wait"
    /\ clock >= apiCalls[c].wake
    /\ SendRequest(c)
    /\ UNCHANGED <<clock, aiCache, requestQueue, isProcessing, loops, queueOrder>>
    /\ UNCHANGED notAiVars

\* the fetch of call c completes: a good response is parsed, cached under the
\* call's key and returned; a bad one makes the call throw
FetchDone(c, ok) ==
    /\ apiCalls[c].pc = "fetch"
    /\ IF ok
       THEN /\ aiCache' = CacheSet(aiCache,
                              GenerateCacheKey(apiCalls[c].prompt, apiCalls[c].image),
                              Answer(apiCalls[c].prompt, apiCalls[c].image),
                              clock, GlobalCacheMaxSize)
            /\ apiCalls' = [apiCalls EXCEPT ![c].pc = "done",
                               ![c].got = Answer(apiCalls[c].prompt, apiCalls[c].image)]
       ELSE /\ apiCalls' = [apiCalls EXCEPT ![c].pc = "failed"]
            /\ UNCHANGED aiCache
    /\ UNCHANGED <<clock, lastRequestTime, sent, requestQueue, isProcessing, loops, queueOrder>>
    /\ UNCHANGED notAiVars

\* a call of callGeminiAPI has returned or thrown
Returned(call) == call.pc \in {"cached", "done", "failed"}

Loop(c, phase) == [req |-> c, phase |-> phase]

\* processQueue(): one turn of the while loop, taking the head of the queue `q`
\* and calling callGeminiAPI with it
TakeNext(base, q, others) ==
    /\ requestQueue' = Tail(q)
    /\ StartCall(base, Head(q), base[Head(q)].prompt, base[Head(q)].image)
    /\ loops' = others \cup {Loop(Head(q), "call")}

\* addToQueue(request): push, then processQueue(), which returns at once when a
\* loop is marked as running
AddToQueue(c, prompt, image) ==
    /\ IsNextCall(c)
    /\ queueOrder' = Append(queueOrder, c)
    /\ LET base == [apiCalls EXCEPT ![c] =
                       [NotCalled EXCEPT !.pc = "queued", !.prompt = prompt, !.image = image]]
       IN  IF isProcessing
           THEN /\ requestQueue' = Append(requestQueue, c)
                /\ apiCalls' = base
                /\ UNCHANGED <<isProcessing, loops, lastRequestTime, sent, aiCache>>
           ELSE /\ isProcessing' = TRUE
                /\ TakeNext(base, Append(requestQueue, c), loops)
    /\ UNCHANGED clock
    /\ UNCHANGED notAiVars

\* the callGeminiAPI awaited by a processQueue loop has settled: resolve or reject,
\* then the loop sleeps 100 ms
LoopCallDone(l) ==
    /\ l \in loops
    /\ l.phase = "call"
    /\ Returned(apiCalls[l.req])
    /\ loops' = (loops \ {l}) \cup {Loop(l.req, "sleep")}
    /\ UNCHANGED <<clock, lastRequestTime, apiCalls, sent, aiCache, requestQueue,
                   isProcessing, queueOrder>>
    /\ UNCHANGED notAiVars

\* the 100 ms sleep of a processQueue loop is over: the loop goes on with the
\* head of this.requestQueue, or ends and resets isProcessing
LoopSleepDone(l) ==
    /\ l \in loops
    /\ l.phase = "sleep"
    /\ IF requestQueue # <<>>
       THEN /\ TakeNext(apiCalls, requestQueue, loops \ {l})
            /\ UNCHANGED isProcessing
       ELSE /\ isProcessing' = FALSE
            /\ loops' = loops \ {l}
            /\ UNCHANGED <<requestQueue, apiCalls, lastRequestTime, sent, aiCache>>
    /\ UNCHANGED <<clock, queueOrder>>
    /\ UNCHANGED notAiVars

\* clearCache(): the entries whose key starts with 'ai_' are deleted
ClearCache(c) ==
    SelectSeq(c, LAMBDA e : Substring(e.key, 0, Len(KeyPrefix)) # KeyPrefix)

\* clearAllData(): clearCache(), requestQueue = [], isProcessing = false
ClearAllData ==
    /\ aiCache' = ClearCache(aiCache)
    /\ requestQueue' = <<>>
    /\ isProcessing' = FALSE
    /\ UNCHANGED <<clock, lastRequestTime, apiCalls, sent, loops, queueOrder>>
    /\ UNCHANGED notAiVars

\* time passes
AiTick ==
    /\ clock < EndTime
    /\ clock' = clock + TickMs
    /\ UNCHANGED <<lastRequestTime, apiCalls, sent, aiCache, requestQueue, isProcessing,
                   loops, queueOrder>>
    /\ UNCHANGED notAiVars

AiNext ==
    \/ \E c \in CallIds, r \in Requests : CallGeminiAPI(c, r[1], r[2])
    \/ \E c \in CallIds : WaitOver(c)
    \/ \E c \in CallIds, ok \in BOOLEAN : FetchDone(c, ok)
    \/ \E c \in CallIds, r \in Requests : AddToQueue(c, r[1], r[2])
    \/ \E l \in loops : LoopCallDone(l)
    \/ \E l \in loops : LoopSleepDone(l)
    \/ ClearAllData
    \/ AiTick

\* --------------------------------------------------------- specifications
\* a MemoryCache in use, beside a scroller that is only constructed
CacheSpecInit ==
    /\ \E cap \in Caps, life \in Ttls : CacheNew(cap, life)
    /\ ScrollerNew(80, 400, 0)
    /\ WorkerNew
    /\ AiNew

CacheSpec == CacheSpecInit /\ [][CacheNext]_vars

\* a VirtualScroller in use, beside a cache that is only constructed
ScrollerSpecInit ==
    /\ \E h \in ItemHeights, ch \in ClientHeights, n \in Counts : ScrollerNew(h, ch, n)
    /\ CacheNew(1, 1)
    /\ WorkerNew
    /\ AiNew

ScrollerSpec == ScrollerSpecInit /\ [][ScrollerNext]_vars

\* a WorkerManager in use, beside a cache and a scroller that are only constructed
WorkerSpecInit ==
    /\ WorkerNew
    /\ CacheNew(1, 1)
    /\ ScrollerNew(80, 400, 0)
    /\ AiNew

WorkerSpec == WorkerSpecInit /\ [][WorkerNext]_vars

\* an AIIntegrationComponent in use, beside the others only constructed
AiSpecInit ==
    /\ AiNew
    /\ CacheNew(1, 1)
    /\ ScrollerNew(80, 400, 0)
    /\ WorkerNew

AiSpec == AiSpecInit /\ [][AiNext]_vars

\* a MemoryCache with room for every key, written and deleted as time passes
OverwriteSpecInit ==
    /\ CacheNew(Cardinality(CacheKeys), 1)
    /\ ScrollerNew(80, 400, 0)
    /\ WorkerNew
    /\ AiNew

OverwriteNext ==
    \/ \E k \in CacheKeys, v \in CacheValues : Set(k, v)
    \/ \E k \in CacheKeys : Delete(k)
    \/ Tick

OverwriteSpec == OverwriteSpecInit /\ [][OverwriteNext]_vars

\* ------------------------------------------------------ MemoryCache claims

\* C1: after every call, in any interleaving of set, get, has, delete, clear and
\* cleanup, the store holds at most maxSize entries.
CapacityInv == Len(cache) <= maxSize

\* a set on a third distinct key has just returned with the store at its cap of 2
CapacityWitness ==
    /\ ret.op = "set" /\ ret.removed = 1
    /\ maxSize = 2 /\ Len(cache) = 2

RunComplete ==
    /\ run.ok
    /\ Len(run.calls) = maxSize + 1
    /\ \A i \in DOMAIN run.calls : now - run.calls[i].t <= ttl

\* C2: from an empty cache, after set on maxSize + 1 distinct keys in order and no
\* expiry, get of the first key gives null and get of every later key gives the
\* value stored for it.
FifoEviction ==
    RunComplete =>
        /\ CacheGetResult(cache, run.calls[1].key, now, ttl) = Null
        /\ \A i \in 2..(maxSize + 1) :
              CacheGetResult(cache, run.calls[i].key, now, ttl) = run.calls[i].value

\* set a, b, c on a cache of 2, then get(a) has returned null
FifoWitness ==
    /\ RunComplete /\ maxSize = 2
    /\ ret.op = "get" /\ ret.key = run.calls[1].key /\ ret.val = Null

\* C3: get(k) of a key last set at time t with value v, and still stored, returns
\* v when now - t <= ttl and null when now - t > ttl; a value is returned only
\* for a key that is stored and not expired.
TtlExpiry ==
    [][\A k \in CacheKeys :
          Get(k) =>
             /\ lastSet[k] # NoSet =>
                   ret'.val = (IF now - lastSet[k].t <= ttl THEN lastSet[k].v ELSE Null)
             /\ ret'.val # Null => (lastSet[k] # NoSet /\ now - lastSet[k].t <= ttl)]_vars

\* a get has found its key expired (and answered null) with no cleanup having removed it
TtlWitness ==
    /\ ret.op = "get" /\ ret.val = Null /\ ret.removed = 1

\* C4 as stated: set removes another entry only at capacity with a new key, and a
\* set on a present key overwrites it and keeps every other key.
SetKeepsOthers ==
    [][\A k \in CacheKeys, v \in CacheValues :
          Set(k, v) =>
             /\ (MapKeys(cache) \ (MapKeys(cache') \cup {k}) # {}) =>
                   (Len(cache) >= maxSize /\ ~MapHas(cache, k))
             /\ MapHas(cache, k) =>
                   /\ MapKeys(cache) \subseteq MapKeys(cache')
                   /\ MapGet(cache', k).value = v]_vars

\* C5: a get that finds its entry older than ttl returns null, removes exactly
\* that entry, adds one to missCount and leaves hitCount and the other entries.
GetRemovesExpired ==
    [][\A k \in CacheKeys :
          (Get(k) /\ MapHas(cache, k) /\ now - MapGet(cache, k).timestamp > ttl) =>
             /\ ret'.val = Null
             /\ ~MapHas(cache', k)
             /\ Len(cache') = Len(cache) - 1
             /\ \A i \in DOMAIN cache :
                   cache[i].key # k => \E j \in DOMAIN cache' : cache'[j] = cache[i]
             /\ missCount' = missCount + 1
             /\ hitCount' = hitCount]_vars

\* a get has removed its expired entry and another entry is still stored
GetRemovesExpiredWitness ==
    /\ ret.op = "get" /\ ret.removed = 1 /\ Len(cache) = 1 /\ missCount = 1

\* C6: the counters are the numbers of gets that returned a value and that
\* returned null since construction or clear, and getStats reports them, the
\* number of stored entries and hits / (hits + misses), 0 without a get.
StatsCorrect ==
    /\ hitCount = nHit
    /\ missCount = nMiss
    /\ ret.op = "getStats" =>
          /\ ret.stats.size = Len(cache)
          /\ ret.stats.hitCount = nHit
          /\ ret.stats.missCount = nMiss
          /\ ret.stats.hitRatio[2] > 0
          /\ IF nHit + nMiss = 0
             THEN ret.stats.hitRatio[1] = 0
             ELSE ret.stats.hitRatio[1] * (nHit + nMiss) = nHit * ret.stats.hitRatio[2]

\* getStats after one hit and one miss
StatsWitness ==
    /\ ret.op = "getStats" /\ ret.stats.hitCount = 1 /\ ret.stats.missCount = 1
    /\ ret.stats.size >= 1

\* C7: cleanup removes every entry older than ttl and no other, leaves the
\* counters, and every key left is retrievable with get right after.
CleanupSweeps ==
    [][Cleanup =>
          /\ \A i \in DOMAIN cache :
                IF now - cache[i].timestamp > ttl
                THEN ~MapHas(cache', cache[i].key)
                ELSE \E j \in DOMAIN cache' : cache'[j] = cache[i]
          /\ MapKeys(cache') \subseteq MapKeys(cache)
          /\ hitCount' = hitCount /\ missCount' = missCount
          /\ \A k \in MapKeys(cache') :
                CacheGetResult(cache', k, now', ttl) = lastSet[k].v]_vars

\* a cleanup has removed an expired entry and kept a live one
CleanupWitness ==
    /\ ret.op = "cleanup" /\ ret.removed >= 1 /\ Len(cache) >= 1

\* -------------------------------------------------- VirtualScroller claims
Rendered == sop \in {"init", "scroll", "refresh"}

\* C8: every render computes the window [visibleStart, visibleEnd) with
\* visibleStart = floor(scrollTop / itemHeight) and visibleEnd =
\* min(visibleStart + ceil(containerHeight / itemHeight) + 1, itemCount); for 1000
\* items of height 80 in a viewport of 400 it is [0, 6) at offset 0 and
\* [100, 106) at offset 8000.
WindowFormula ==
    Rendered =>
        /\ win[1] * itemHeight <= scrollTop
        /\ scrollTop < (win[1] + 1) * itemHeight
        /\ \E c \in 0..containerHeight :
              /\ c * itemHeight >= containerHeight
              /\ (c - 1) * itemHeight < containerHeight
              /\ win[2] = IF win[1] + c + 1 <= itemCount THEN win[1] + c + 1 ELSE itemCount
        /\ (itemCount = 1000 /\ itemHeight = 80 /\ containerHeight = 400) =>
              /\ scrollTop = 0 => win = <<0, 6>>
              /\ scrollTop = 8000 => win = <<100, 106>>

\* a handled scroll to offset 8000 over 1000 rows of 80 px in a 400 px viewport
WindowWitness ==
    /\ sop = "scroll"
    /\ itemCount = 1000 /\ itemHeight = 80 /\ containerHeight = 400
    /\ scrollTop = 8000 /\ win = <<100, 106>>

\* C9: after every handled scroll event and every refresh the keys of
\* visibleItems are exactly the indices of the window that render computed from
\* scrollTop, containerHeight and the count queried at that render, also when
\* the count has shrunk below the rows rendered before.
WindowEqualsRows ==
    Rendered =>
        /\ win = <<Floor(scrollTop, itemHeight),
                   Min(Floor(scrollTop, itemHeight) + Ceil(containerHeight, itemHeight) + 1,
                       itemCount)>>
        /\ DOMAIN visibleItems = {i \in 0..(win[2] - 1) : i >= win[1]}

\* a refresh after the list shrank below the first row of the window rendered
\* before (scrollTop lies beyond the new track): no row is left
WindowEqualsRowsWitness ==
    /\ sop = "refresh"
    /\ itemCount >= 1 /\ scrollTop >= itemCount * itemHeight
    /\ win[2] < win[1]
    /\ visibleItems = NoItems

\* C10: the number of materialized rows never exceeds ceil(H / R) + 2, for H the
\* viewport height the scroller holds and R the row height, whatever the count.
RowBound == Cardinality(DOMAIN visibleItems) <= Ceil(containerHeight, itemHeight) + 2

\* 1000 items and a handled scroll away from the top, with a full window of rows
RowBoundWitness ==
    /\ sop = "scroll" /\ itemCount = 1000 /\ scrollTop > 0
    /\ clientHeight = containerHeight
    /\ Cardinality(DOMAIN visibleItems) = Ceil(containerHeight, itemHeight) + 1

\* C11: every row tracked under index i has top offset i * itemHeight.
RowTop == \A i \in DOMAIN visibleItems : visibleItems[i] = i * itemHeight

\* a refresh with the window away from the top of the list
RowTopWitness ==
    /\ sop = "refresh" /\ win[1] > 0
    /\ \E i \in DOMAIN visibleItems : i > win[1] /\ visibleItems[i] = i * itemHeight

RowsAreWindow(rows, top, ch, n) ==
    DOMAIN rows =
        {i \in 0..(n - 1) :
            /\ i >= Floor(top, itemHeight)
            /\ i < Floor(top, itemHeight) + Ceil(ch, itemHeight) + 1}

\* C13 as stated: after the container's height changes, the rows are the window
\* computed with the new height, without a refresh() by the caller.
ResizeRerenders ==
    [][(sop' = "resize" /\ RowsAreWindow(visibleItems, scrollTop, clientHeight, itemCount))
          => RowsAreWindow(visibleItems', scrollTop', clientHeight', itemCount')]_vars

\* C14 as stated: once the burst of scroll events is over (no event queued, the
\* throttle timer has fired), the window starts at the row of the last event's offset.
LastScrollWins ==
    (~inThrottle /\ ~scrollPending) => win[1] = Floor(domScrollTop, itemHeight)

\* ---------------------------------------------------- WorkerManager claims

\* C15: a promise of execute() is resolved only with the result of the worker
\* message tagged with its own task id, and rejected with a message's error only
\* by the message tagged with its own task id; the message for task t carries t.
ResultMatchesTask ==
    \A t \in DOMAIN tasks :
        /\ tasks[t].st = "resolved" => (tasks[t].why = "result" /\ tasks[t].val = t)
        /\ tasks[t].why \in {"result", "error"} => tasks[t].val = t
        /\ tasks[t].why = "error" => tasks[t].st = "rejected"

\* two tasks outstanding on the same worker, the later one answered first
ResultMatchesTaskWitness ==
    /\ wop = "message"
    /\ Len(tasks) >= 2
    /\ tasks[1].inst = tasks[2].inst
    /\ tasks[1].inst # 0
    /\ tasks[1].st = "pending"
    /\ tasks[2].st = "resolved"
    /\ tasks[2].val = 2

\* the tasks posted to Worker instance k whose promise is not settled
PendingOn(ts, k) == {t \in DOMAIN ts : ts[t].inst = k /\ ts[t].st = "pending"}

\* C16 as stated: when Worker k raises an error, every task pending on k is
\* rejected with 'Worker error' and its timer no longer armed, and the tasks of
\* the other workers are as they were.
WorkerErrorRejects ==
    [][\A k \in DOMAIN instances :
          WorkerError(k) =>
              /\ \A t \in PendingOn(tasks, k) :
                     /\ tasks'[t].st = "rejected"
                     /\ tasks'[t].why = "Worker error"
                     /\ tasks'[t].timer # "armed"
              /\ \A t \in DOMAIN tasks : tasks[t].inst # k => tasks'[t] = tasks[t]]_vars

\* C17 as stated: when the 30 s timer of a task fires with no reply received, the
\* promise is rejected with 'Worker task timed out' and no callback table holds
\* the task any more.
TimeoutRejects ==
    [][\A t \in DOMAIN tasks :
          (TaskTimeout(t) /\ tasks[t].st = "pending") =>
              /\ tasks'[t].st = "rejected"
              /\ tasks'[t].why = "Worker task timed out"
              /\ \A i \in DOMAIN callbacks' : t \notin callbacks'[i].tasks]_vars

\* C18: a terminateAll() call leaves the workers map and the callbacks map empty,
\* and every Worker that was in the workers map before the call is terminated.
TerminateAllEmpties ==
    [][wop' = "terminateAll" =>
          /\ workers' = NoWorkers
          /\ callbacks' = <<>>
          /\ \A w \in DOMAIN workers : ~instances'[workers[w]].live]_vars

\* terminateAll() has just ended a pool of two workers that both had a pending task
TerminateAllWitness ==
    /\ wop = "terminateAll"
    /\ workers = NoWorkers
    /\ callbacks = <<>>
    /\ \E t, u \in DOMAIN tasks :
           /\ tasks[t].wid # tasks[u].wid
           /\ tasks[t].st = "pending" /\ tasks[u].st = "pending"
           /\ tasks[t].timer = "armed" /\ tasks[u].timer = "armed"
           /\ ~instances[tasks[t].inst].live /\ ~instances[tasks[u].inst].live

\* the number of unsettled tasks posted to the Worker registered under id w
PendingCount(ts, ws, w) == Cardinality(PendingOn(ts, ws[w]))

\* the pending-task counts of any two workers of the pool differ by at most one
Balanced(ts, ws) ==
    \A w, u \in DOMAIN ws : PendingCount(ts, ws, w) <= PendingCount(ts, ws, u) + 1

\* C19: execute() on an empty pool fails with 'No available workers'; otherwise
\* the task goes to a worker of the pool whose number of pending tasks is minimal
\* at the call and joins that worker's pending tasks, so a pool whose counts
\* differ by at most one still has counts differing by at most one after the call.
LeastBusyChosen ==
    [][wop' = "execute" =>
          LET t == Len(tasks')
          IN  IF workers = NoWorkers
              THEN /\ tasks'[t].st = "rejected"
                   /\ tasks'[t].why = "No available workers"
              ELSE /\ tasks'[t].wid \in DOMAIN workers
                   /\ tasks'[t].inst = workers[tasks'[t].wid]
                   /\ tasks'[t].st = "pending"
                   /\ \A w \in DOMAIN workers :
                          PendingCount(tasks, workers, tasks'[t].wid)
                              <= PendingCount(tasks, workers, w)
                   /\ Balanced(tasks, workers) => Balanced(tasks', workers')]_vars

\* two tasks submitted to a pool of two workers with no reply in between: one each
LeastBusyWitness ==
    /\ wop = "execute"
    /\ DOMAIN workers = WorkerIds
    /\ Len(tasks) = MaxTasks
    /\ \A w \in WorkerIds : PendingCount(tasks, workers, w) >= 1
    /\ Balanced(tasks, workers)

\* -------------------------------------------- AIIntegrationComponent claims

\* C20 as stated: any two requests sent by callGeminiAPI, also from calls that
\* overlap, are at least rateLimitDelay apart.
RateLimited ==
    \A i, j \in DOMAIN sent : i < j => sent[j] - sent[i] >= rateLimitDelay

\* ------------------------------------------- VirtualScroller claims, continued

\* C21 as stated: after refresh() no row on display was rendered from a list that
\* has since been replaced.
RefreshRerendersRows == sop = "refresh" => staleRows = {}

\* ----------------------------------------------- MemoryCache claims, continued

\* C22 as stated: an entry that a set removes to make room has the smallest stored
\* timestamp of all entries in the store at the call.
EvictsOldestTimestamp ==
    [][\A k \in CacheKeys, v \in CacheValues :
          Set(k, v) =>
              \A i \in DOMAIN cache :
                  cache[i].key \notin MapKeys(cache') =>
                      \A j \in DOMAIN cache : cache[i].timestamp <= cache[j].timestamp]_vars

\* ----------------------------------- AIIntegrationComponent claims, continued

\* C23 as stated: a call answered from the cache receives the answer to its own
\* prompt and image data.
CacheHitIsOwnAnswer ==
    \A c \in CallIds :
        apiCalls[c].pc = "cached" =>
            apiCalls[c].got = Answer(apiCalls[c].prompt, apiCalls[c].image)

\* ------------------------------------------- WorkerManager claims, continued

\* C24 as stated: a promise of execute() that is not settled can still be
\* settled: its timer is armed, or a callback table holds its task so that a
\* reply or a worker error reaches it. A pending promise with neither stays
\* pending for ever.
PendingCanSettle ==
    \A t \in DOMAIN tasks :
        tasks[t].st = "pending" =>
            \/ tasks[t].timer = "armed"
            \/ \E i \in DOMAIN callbacks : t \in callbacks[i].tasks

\* the Worker instances constructed and not terminated
LiveWorkers == {k \in DOMAIN instances : instances[k].live}

\* C25 as stated: every live Worker is the one registered in the workers map under
\* its id, and there are never more than workerCount live Workers.
NoOrphanWorker ==
    /\ \A k \in LiveWorkers :
           /\ instances[k].id \in DOMAIN workers
           /\ workers[instances[k].id] = k
    /\ Cardinality(LiveWorkers) <= workerCount

\* the calls passed to addToQueue whose callGeminiAPI is under way
InFlight == {c \in CallIds : \E i \in DOMAIN queueOrder : queueOrder[i] = c
                                /\ apiCalls[c].pc \in {"wait", "fetch"}}

\* C26 as stated: at most one queued request is in flight, and a queued request
\* that has been started has no request queued ahead of it that is still in
\* flight or still waiting in the queue.
OneAtATimeInOrder ==
    /\ Cardinality(InFlight) <= 1
    /\ \A i, j \in DOMAIN queueOrder :
           (i < j /\ apiCalls[queueOrder[j]].pc # "queued") =>
               /\ queueOrder[i] \notin InFlight
               /\ \A n \in DOMAIN requestQueue : requestQueue[n] # queueOrder[i]

====
